---- MODULE Spec2Model ----
(***************************************************************************)
(* A model of the image conversion service of src/main.py: the /convert    *)
(* request handler convert_images, the RAW decoder open_raw_image and the  *)
(* pure helpers they use.  Strings are sequences of one-character strings, *)
(* so that upper(), lower(), Path.suffix and Path.stem are computed rather *)
(* than assumed.  Python floats are IEEE doubles: the three places where   *)
(* the handler truncates a float product are computed on a 53-bit mantissa *)
(* held as a sequence of bits.                                             *)
(***************************************************************************)
EXTENDS Integers, Sequences, FiniteSets, TLC

\* Python's None where the other values are strings.
None == "None"

\* An Optional[int] form field: <<>> is None, <<v>> is the integer v.
NoInt == <<>>

Some(v) == <<v>>

(***************************************************************************)
(* Strings.                                                                *)
(***************************************************************************)
LowerLetters ==
    <<"a","b","c","d","e","f","g","h","i","j","k","l","m",
      "n","o","p","q","r","s","t","u","v","w","x","y","z">>

UpperLetters ==
    <<"A","B","C","D","E","F","G","H","I","J","K","L","M",
      "N","O","P","Q","R","S","T","U","V","W","X","Y","Z">>

UpperChar(c) ==
    IF \E k \in DOMAIN LowerLetters : LowerLetters[k] = c
    THEN UpperLetters[CHOOSE k \in DOMAIN LowerLetters : LowerLetters[k] = c]
    ELSE c

LowerChar(c) ==
    IF \E k \in DOMAIN UpperLetters : UpperLetters[k] = c
    THEN LowerLetters[CHOOSE k \in DOMAIN UpperLetters : UpperLetters[k] = c]
    ELSE c

\* str.upper() and str.lower()
StrUpper(s) == [k \in 1..Len(s) |-> UpperChar(s[k])]

StrLower(s) == [k \in 1..Len(s) |-> LowerChar(s[k])]

\* The index of the last occurrence of character c in s, 0 when there is none.
RFind(s, c) ==
    IF \E k \in 1..Len(s) : s[k] = c
    THEN CHOOSE k \in 1..Len(s) : s[k] = c /\ \A j \in (k+1)..Len(s) : s[j] # c
    ELSE 0

\* Path(filename).name: the last path component.
PathName(filename) == SubSeq(filename, RFind(filename, "/") + 1, Len(filename))

\* Whether the name has a suffix: its last dot is neither its first nor its
\* last character.
HasSuffix(name) == RFind(name, ".") > 1 /\ RFind(name, ".") < Len(name)

\* Path(filename).suffix: from the last dot of the name on, "" without one.
PathSuffix(filename) ==
    LET name == PathName(filename)
    IN  IF HasSuffix(name) THEN SubSeq(name, RFind(name, "."), Len(name)) ELSE <<>>

\* Path(filename).stem: the name without its suffix.
PathStem(filename) ==
    LET name == PathName(filename)
    IN  IF HasSuffix(name) THEN SubSeq(name, 1, RFind(name, ".") - 1) ELSE name

(***************************************************************************)
(* IEEE double arithmetic on small integers.  A positive double is         *)
(* [mid, lo, e]: its 53-bit mantissa is 2^52 + mid * 2^26 + lo, with       *)
(* mid, lo < 2^26, and its value is mantissa * 2^(e - 52).  The numbers    *)
(* the handler divides and multiplies are below 2^17, so every step stays  *)
(* within the 32-bit integers of TLC.                                      *)
(***************************************************************************)
RECURSIVE Pow2(_)
Pow2(n) == IF n = 0 THEN 1 ELSE 2 * Pow2(n - 1)

\* A mantissa is handled in digits of 13 bits, two to a half of 26 bits.
Limb == Pow2(13)

Half == Limb * Limb

Abs(x) == IF x < 0 THEN -x ELSE x

Sign(x) == IF x < 0 THEN -1 ELSE 1

\* The exponent of a/b for a >= b > 0: the largest e with b * 2^e <= a.
RECURSIVE ExpUp(_, _)
ExpUp(a, b) == IF 2 * b <= a THEN 1 + ExpUp(a, 2 * b) ELSE 0

\* For 0 < a < b: the least e with a * 2^e >= b.
RECURSIVE ExpDown(_, _)
ExpDown(a, b) == IF a >= b THEN 0 ELSE 1 + ExpDown(2 * a, b)

\* The number of binary digits of n > 0.
RECURSIVE BitLen(_)
BitLen(n) == IF n <= 1 THEN 1 ELSE 1 + BitLen(n \div 2)

\* Round to nearest, ties to even: the mantissa rounded up when up holds; a
\* carry out of the top bit renormalises.
RoundMantissa(mid, lo, e, up) ==
    IF ~up THEN [mid |-> mid, lo |-> lo, e |-> e]
    ELSE IF lo + 1 < Half THEN [mid |-> mid, lo |-> lo + 1, e |-> e]
    ELSE IF mid + 1 < Half THEN [mid |-> mid + 1, lo |-> 0, e |-> e]
    ELSE [mid |-> 0, lo |-> 0, e |-> e + 1]

\* float(a) / float(b) for integers a, b > 0, correctly rounded: the leading
\* one, then four 13-bit digits of the quotient by long division.
FloatDiv(a, b) ==
    LET e  == IF a >= b THEN ExpUp(a, b) ELSE -ExpDown(a, b)
        A  == IF a >= b THEN a ELSE a * Pow2(-e)
        B  == IF a >= b THEN b * Pow2(e) ELSE b
        r0 == A - B
        q1 == (r0 * Limb) \div B
        r1 == (r0 * Limb) % B
        q2 == (r1 * Limb) \div B
        r2 == (r1 * Limb) % B
        q3 == (r2 * Limb) \div B
        r3 == (r2 * Limb) % B
        q4 == (r3 * Limb) \div B
        r4 == (r3 * Limb) % B
        up == 2 * r4 > B \/ (2 * r4 = B /\ q4 % 2 = 1)
    IN  RoundMantissa(q1 * Limb + q2, q3 * Limb + q4, e, up)

\* float(x) * d for an integer x > 0 and a double d, correctly rounded: the
\* exact product digit by digit, then the s = BitLen(top) - 1 extra low bits
\* shifted out and rounded.
FloatMul(x, d) ==
    LET t4   == (d.lo % Limb) * x
        t3   == (d.lo \div Limb) * x + (t4 \div Limb)
        t2   == (d.mid % Limb) * x + (t3 \div Limb)
        t1   == (d.mid \div Limb) * x + (t2 \div Limb)
        top  == x + (t1 \div Limb)
        Mid  == (t1 % Limb) * Limb + (t2 % Limb)
        Lo   == (t3 % Limb) * Limb + (t4 % Limb)
        s    == BitLen(top) - 1
        P    == Pow2(s)
        mid  == (Mid \div P) + (top % P) * (Half \div P)
        lo   == (Lo \div P) + (Mid % P) * (Half \div P)
        rem  == Lo % P
        up   == s > 0 /\ (2 * rem > P \/ (2 * rem = P /\ lo % 2 = 1))
    IN  RoundMantissa(mid, lo, d.e + s, up)

\* int(d) for a positive double d below 2^27: the integer part.
FloatTrunc(d) == IF d.e < 0 THEN 0 ELSE Pow2(d.e) + (d.mid \div Pow2(26 - d.e))

\* int(x * (a / b)) as Python computes it, for integers x >= 0, a, b > 0:
\* a true division, a float product, a truncation toward zero.
IntOfProduct(x, a, b) ==
    IF a = 0 \/ x = 0 THEN 0
    ELSE Sign(a) * FloatTrunc(FloatMul(x, FloatDiv(Abs(a), b)))

(***************************************************************************)
(* The module-level tables.                                                *)
(***************************************************************************)
RAW_EXTENSIONS ==
    { <<".","c","r","2">>, <<".","c","r","3">>,
      <<".","n","e","f">>, <<".","n","r","w">>,
      <<".","a","r","w">>, <<".","s","r","f">>, <<".","s","r","2">>,
      <<".","o","r","f">>,
      <<".","r","w","2">>,
      <<".","d","n","g">>,
      <<".","r","a","w">>, <<".","r","w","l">>,
      <<".","r","a","f">>,
      <<".","p","e","f">>, <<".","p","t","x">>,
      <<".","x","3","f">>,
      <<".","s","r","w">>,
      <<".","e","r","f">>,
      <<".","m","r","w">>,
      <<".","3","f","r">>,
      <<".","m","e","f">>,
      <<".","m","o","s">>,
      <<".","k","d","c">>, <<".","d","c","r">> }

PNG == <<"P","N","G">>

JPG == <<"J","P","G">>

JPEG == <<"J","P","E","G">>

GIF == <<"G","I","F">>

WEBP == <<"W","E","B","P">>

HEIC == <<"H","E","I","C">>

SUPPORTED_OUTPUT_FORMATS == {PNG, JPG, JPEG, GIF, WEBP}

FORMAT_EXTENSIONS(fmt) ==
    CASE fmt = PNG  -> <<"p","n","g">>
      [] fmt = JPG  -> <<"j","p","g">>
      [] fmt = JPEG -> <<"j","p","g">>
      [] fmt = GIF  -> <<"g","i","f">>
      [] fmt = WEBP -> <<"w","e","b","p">>
      [] fmt = HEIC -> <<"h","e","i","c">>

FORMAT_MIME_TYPES(fmt) ==
    CASE fmt = PNG  -> "image/png"
      [] fmt = JPG  -> "image/jpeg"
      [] fmt = JPEG -> "image/jpeg"
      [] fmt = GIF  -> "image/gif"
      [] fmt = WEBP -> "image/webp"
      [] fmt = HEIC -> "image/heic"

\* is_raw_file: the lower-cased suffix is one of the RAW extensions.
is_raw_file(filename) == StrLower(PathSuffix(filename)) \in RAW_EXTENSIONS

(***************************************************************************)
(* The pure steps of convert_images.                                       *)
(***************************************************************************)
\* Python truthiness of an Optional[int]: None and 0 are false.
Truthy(v) == v # NoInt /\ v[1] # 0

Max(a, b) == IF a >= b THEN a ELSE b

Min(a, b) == IF a <= b THEN a ELSE b

\* quality = max(1, min(100, quality))
ClampQuality(q) == Max(1, Min(100, q))

\* The detail of the HTTPException raised for a target format outside
\* SUPPORTED_OUTPUT_FORMATS: an f-string, its literal parts and its field.
UnsupportedDetail(fmt) ==
    << "Unsupported target format: ", fmt,
       ". Supported output formats: PNG, JPG, JPEG, GIF, WEBP" >>

\* The detail of the HTTPException the except clause raises.
ProcessingDetail(filename, e) == << "Error processing ", filename, ": ", e >>

\* len(img.split()): the number of bands of a mode.
Bands(mode) ==
    CASE mode \in {"1", "L", "P", "I", "F"} -> 1
      [] mode \in {"LA", "PA"}              -> 2
      [] mode \in {"RGB", "YCbCr"}          -> 3
      [] mode \in {"RGBA", "CMYK"}          -> 4

\* The colour-mode step: op is what was done to the bitmap, mode the mode of
\* the bitmap that goes on to the resize step.
NormalizeJpeg(mode) ==
    IF mode \in {"RGBA", "P"}
    THEN LET expanded == IF mode = "P" THEN "RGBA" ELSE mode
         IN  [ op   |-> "composite",
               mask |-> IF Bands(expanded) = 4 THEN "alpha" ELSE None,
               mode |-> "RGB" ]
    ELSE IF mode # "RGB"
         THEN [op |-> "convert", mask |-> None, mode |-> "RGB"]
         ELSE [op |-> "none", mask |-> None, mode |-> mode]

NormalizeGif(mode) ==
    IF mode \notin {"RGB", "RGBA", "P"}
    THEN [op |-> "convert", mask |-> None, mode |-> "RGB"]
    ELSE [op |-> "none", mask |-> None, mode |-> mode]

Normalize(fmt, mode) ==
    IF fmt \in {JPG, JPEG} THEN NormalizeJpeg(mode)
    ELSE IF fmt = GIF THEN NormalizeGif(mode)
    ELSE [op |-> "none", mask |-> None, mode |-> mode]

\* Image.resize(size): the library refuses a size with a side below 1.
PilResize(size) ==
    IF size[1] < 1 \/ size[2] < 1
    THEN [ok |-> FALSE, size |-> size, e |-> "height and width must be > 0"]
    ELSE [ok |-> TRUE, size |-> size, e |-> ""]

\* floor and ceiling of n/d for d > 0
FloorDiv(n, d) == n \div d

CeilDiv(n, d) == -((-n) \div d)

\* Image.thumbnail(box): the size it asks Image.resize for, <<>> when it
\* leaves the image alone.  The side that the box leaves free is the nearer
\* of the floor and the ceiling of the aspect-preserving value, at least 1.
ThumbnailSize(size, box) ==
    LET W == size[1]
        H == size[2]
        x == box[1]
        y == box[2]
        wide == IF y > 0 THEN x * H >= W * y ELSE x * H <= W * y
        fx == FloorDiv(y * W, H)
        cx == CeilDiv(y * W, H)
        newx == Max(IF Abs(W * y - fx * H) <= Abs(W * y - cx * H) THEN fx ELSE cx, 1)
        fy == FloorDiv(x * H, W)
        cy == CeilDiv(x * H, W)
        keyf == IF fy = 0 THEN 0 ELSE Abs(W * fy - x * H) * Abs(cy)
        keyc == IF cy = 0 THEN 0 ELSE Abs(W * cy - x * H) * Abs(fy)
        newy == Max(IF fy = 0 \/ (cy # 0 /\ keyf <= keyc) THEN fy ELSE cy, 1)
        fit == IF wide THEN <<newx, y>> ELSE <<x, newy>>
    IN  IF x >= W /\ y >= H THEN <<>>
        ELSE IF fit = size THEN <<>>
        ELSE fit

\* n / d rounded to the nearest integer, ties to the even one (Python's
\* round), for n >= 0 and d > 0.
RoundHalfEven(n, d) ==
    LET q == n \div d
        r == n % d
    IN  IF 2 * r > d \/ (2 * r = d /\ q % 2 = 1) THEN q + 1 ELSE q

\* The derived side rounded to nearest instead of truncated.
DerivedDimensionRounded(other, given, original) ==
    Sign(given) * RoundHalfEven(other * Abs(given), original)

\* ratio = given / original; int(other * ratio): the side an aspect-keeping
\* resize derives from the one side given.
DerivedDimension(other, given, original) == IntOfProduct(other, given, original)

\* The resize step on an image of the given size: the branch taken, the size
\* asked of Image.resize (<<>> when it is not called).
ResizePlan(size, resize_percent, width, height, maintain_aspect_ratio) ==
    LET original_width  == size[1]
        original_height == size[2]
    IN  IF Truthy(resize_percent) /\ resize_percent[1] # 100
        THEN LET new_width  == IntOfProduct(original_width, resize_percent[1], 100)
                 new_height == IntOfProduct(original_height, resize_percent[1], 100)
             IN  [ branch  |-> "percent",
                   request |-> IF new_width > 0 /\ new_height > 0
                               THEN <<new_width, new_height>> ELSE <<>> ]
        ELSE IF Truthy(width) \/ Truthy(height)
        THEN IF maintain_aspect_ratio
             THEN IF Truthy(width) /\ Truthy(height)
                  THEN [ branch  |-> "thumbnail",
                         request |-> ThumbnailSize(size, <<width[1], height[1]>>) ]
                  ELSE IF Truthy(width)
                  THEN [ branch  |-> "width",
                         request |-> << width[1],
                                        DerivedDimension(original_height, width[1],
                                                         original_width) >> ]
                  ELSE [ branch  |-> "height",
                         request |-> << DerivedDimension(original_width, height[1],
                                                         original_height),
                                        height[1] >> ]
             ELSE [ branch  |-> "exact",
                    request |-> << IF Truthy(width) THEN width[1]
                                   ELSE original_width,
                                   IF Truthy(height) THEN height[1]
                                   ELSE original_height >> ]
        ELSE [branch |-> "none", request |-> <<>>]

\* The compression level with the product rounded instead of truncated.
PngCompressLevelRounded(quality) == 9 - RoundHalfEven(quality * 9, 100)

\* compress_level = 9 - int((quality / 100) * 9)
PngCompressLevel(quality) == 9 - IntOfProduct(9, quality, 100)

\* The modes the PNG writer of the library accepts; the other writers
\* convert what they are given.
EncoderAccepts(fmt, mode) ==
    fmt = PNG => mode \in {"1", "L", "LA", "I", "P", "RGB", "RGBA"}

\* img.save(buffer, format=..., **save_kwargs): the encoder and its options;
\* no branch of the if/elif chain saves anything for another format.
SaveOptions(fmt, quality) ==
    CASE fmt \in {JPG, JPEG} ->
            [format |-> "JPEG", quality |-> quality, optimize |-> TRUE]
      [] fmt = PNG ->
            [format |-> "PNG", compress_level |-> PngCompressLevel(quality),
             optimize |-> TRUE]
      [] fmt = WEBP ->
            [format |-> "WEBP", quality |-> quality, method |-> 6]
      [] fmt = GIF ->
            [format |-> "GIF", optimize |-> TRUE]
      [] OTHER ->
            [format |-> None]

\* new_filename = f"{original_name}.{new_extension}"
NewFilename(filename, fmt) ==
    PathStem(filename) \o <<".">> \o FORMAT_EXTENSIONS(fmt)

\* raise HTTPException(status_code=400, detail=...)
HTTPException(status, detail) == [status |-> status, detail |-> detail]

ZipName ==
    <<"c","o","n","v","e","r","t","e","d","_","i","m","a","g","e","s",
      ".","z","i","p">>

\* The StreamingResponse of a single converted file.
SingleResponse(images, fmt) ==
    [ status      |-> 200,
      media_type  |-> FORMAT_MIME_TYPES(fmt),
      disposition |-> <<"attachment", images[1].filename>>,
      body        |-> images[1].data ]

\* The StreamingResponse of the ZIP archive: one entry per converted file,
\* written in the order of converted_images.
ZipResponse(images) ==
    [ status      |-> 200,
      media_type  |-> "application/zip",
      disposition |-> <<"attachment", ZipName>>,
      body        |-> [ compression |-> "ZIP_DEFLATED",
                        entries |-> [k \in 1..Len(images) |->
                                        [name |-> images[k].filename,
                                         data |-> images[k].data]] ] ]

\* The response that archives whatever the number of files.
BuildResponseAlwaysZip(images, fmt) == ZipResponse(images)

\* Return single file or ZIP
BuildResponse(images, fmt) ==
    IF Len(images) = 1 THEN SingleResponse(images, fmt) ELSE ZipResponse(images)

(***************************************************************************)
(* The request and the handler's state.                                    *)
(***************************************************************************)
VARIABLES
    req,              \* the form fields of the request, as submitted
    pc,               \* where the handler is
    target_format,    \* the local target_format, once upper-cased
    quality,          \* the local quality, once clamped
    idx,              \* the position in files of the file being processed
    img,              \* the bitmap being processed: its mode and size
    original_size,    \* (original_width, original_height) of the resize step
    converted_images, \* the (new_filename, data) pairs appended so far
    response,         \* what the request is answered with
    disk,             \* the temporary files that exist
    tmp_path,         \* the temporary file of the current open_raw_image call
    tmp_count,        \* how many temporary files have been created
    n_read,           \* how many uploads have been read
    raised,           \* the position of the file whose processing raised, or 0
    raised_in,        \* the step that raised
    norm,             \* what the colour-mode step did to the current bitmap
    plan              \* what the resize step did: its branch and request

vars == << req, pc, target_format, quality, idx, img, original_size,
           converted_images, response, disk, tmp_path, tmp_count, n_read,
           raised, raised_in, norm, plan >>

\* The uploads and form values the model submits.
MaxFiles == 2

MaxDim == 4

F_png == <<"a",".","p","n","g">>

F_raw == <<"b",".","C","R","2">>

F_tar == <<"c",".","t","a","r",".","g","z">>

F_dir == <<"d","/","e",".","J","P","G">>

F_bare == <<"f">>

F_dot == <<".","n","e","f">>

Filenames == {F_png, F_raw, F_tar, F_dir, F_bare, F_dot}

TargetInputs ==
    { <<"p","n","g">>, <<"P","N","G">>, <<"j","p","g">>, <<"J","p","e","g">>,
      <<"G","i","f">>, <<"w","e","b","p">>, <<"H","E","I","C">>,
      <<"h","e","i","c">>, <<"B","M","P">>, <<"t","i","f","f">> }

Modes == {"1", "L", "LA", "P", "RGB", "RGBA", "CMYK", "I"}

StandardFaults == {"none", "read", "decode", "normalize", "encode"}

RawFaults == {"none", "tmpwrite", "imread", "postprocess", "fromarray"}

Qualities == (-1)..102

Percents == {NoInt, Some(-50), Some(0), Some(29), Some(50), Some(100), Some(150)}

Dims == {NoInt, Some(15)} \cup {Some(v) : v \in (-1)..MaxDim}

SourceSizes == ((1..MaxDim) \X (1..MaxDim)) \cup {<<11, 11>>, <<100, 50>>}

File(name, mode, size, fault) ==
    [filename |-> name, mode |-> mode, size |-> size, fault |-> fault]

PlainFile == File(F_png, "RGB", <<2, 2>>, "none")

Request(files, fmt, q, percent, w, h, keep) ==
    [ files |-> files, target_format |-> fmt, quality |-> q,
      resize_percent |-> percent, width |-> w, height |-> h,
      maintain_aspect_ratio |-> keep ]

\* Batches of up to MaxFiles files, standard and RAW, each sound or failing
\* at one step.
BatchFiles ==
    {File(F_png, "RGBA", <<2, 2>>, f) : f \in StandardFaults}
        \cup {File(F_raw, "RGB", <<2, 2>>, f) : f \in RawFaults}

Batches == UNION {[1..n -> BatchFiles] : n \in 1..MaxFiles}

BatchRequests ==
    {Request(fs, fmt, 85, NoInt, NoInt, NoInt, TRUE) :
        fs \in Batches, fmt \in {<<"j","p","g">>, <<"P","N","G">>}}

\* Every filename under every target format, alone and in pairs.
NameRequests ==
    {Request(<<File(f, "RGB", <<2, 2>>, "none")>>, fmt, 85, NoInt, NoInt, NoInt, TRUE) :
        f \in Filenames, fmt \in TargetInputs}
    \cup
    {Request(<<File(f, "RGB", <<2, 2>>, "none"), File(g, "RGB", <<2, 2>>, "none")>>,
             <<"w","e","b","p">>, 85, NoInt, NoInt, NoInt, TRUE) :
        f \in Filenames, g \in Filenames}

\* Every colour mode under every target format.
ModeRequests ==
    {Request(<<File(F_png, m, <<2, 2>>, "none")>>, fmt, 85, NoInt, NoInt, NoInt, TRUE) :
        m \in Modes, fmt \in TargetInputs}

\* Every quality under every encoder.
QualityRequests ==
    {Request(<<PlainFile>>, fmt, q, NoInt, NoInt, NoInt, TRUE) :
        q \in Qualities,
        fmt \in {<<"p","n","g">>, <<"j","p","g">>, <<"w","e","b","p">>, <<"G","i","f">>}}

\* Every resize form on every source size.
ResizeRequests ==
    {Request(<<File(F_png, "RGB", s, "none")>>, <<"p","n","g">>, 85, p, w, h, k) :
        s \in SourceSizes, p \in Percents, w \in Dims, h \in Dims, k \in BOOLEAN}

Requests ==
    BatchRequests \cup NameRequests \cup ModeRequests \cup QualityRequests
        \cup ResizeRequests

NoImage == [mode |-> None, size |-> <<>>]

NoPlan == [branch |-> None, request |-> <<>>]

NoNorm == [op |-> None, mask |-> None, mode |-> None]

NoResponse == [status |-> 0]

Init ==
    /\ req \in Requests
    /\ pc = "start"
    /\ target_format = req.target_format
    /\ quality = req.quality
    /\ idx = 0
    /\ img = NoImage
    /\ original_size = <<>>
    /\ converted_images = <<>>
    /\ response = NoResponse
    /\ disk = {}
    /\ tmp_path = <<>>
    /\ tmp_count = 0
    /\ n_read = 0
    /\ raised = 0
    /\ raised_in = None
    /\ norm = NoNorm
    /\ plan = NoPlan

file == req.files[idx]

(***************************************************************************)
(* convert_images, step by step.                                           *)
(***************************************************************************)
\* The validation that takes every input format for an output format.
FormatAcceptedAsInput(fmt) == fmt \in SUPPORTED_OUTPUT_FORMATS \cup {HEIC}

\* Whether the validation of the target format lets the request through.
FormatAccepted(fmt) == fmt \in SUPPORTED_OUTPUT_FORMATS

\* The upper-casing and validation of the target format and the clamping of
\* the quality, before the loop over the files.
Validate ==
    /\ pc = "start"
    /\ target_format' = StrUpper(req.target_format)
    /\ IF ~FormatAccepted(target_format')
       THEN /\ response' = HTTPException(400, UnsupportedDetail(target_format'))
            /\ pc' = "done"
            /\ UNCHANGED <<quality, idx>>
       ELSE /\ quality' = ClampQuality(req.quality)
            /\ idx' = 1
            /\ pc' = "read"
            /\ UNCHANGED response
    /\ UNCHANGED << req, img, original_size, converted_images, disk, tmp_path,
                    tmp_count, n_read, raised, raised_in, norm, plan >>

\* The except clause that returns the outputs collected before the failure.
ExceptPartial(e, step) ==
    /\ response' = IF converted_images # <<>>
                   THEN ZipResponse(converted_images)
                   ELSE HTTPException(400, ProcessingDetail(file.filename, e))
    /\ raised' = idx
    /\ raised_in' = step
    /\ pc' = "done"

\* except Exception as e: the request fails with the file's name.
Except(e, step) ==
    /\ response' = HTTPException(400, ProcessingDetail(file.filename, e))
    /\ raised' = idx
    /\ raised_in' = step
    /\ pc' = "done"

\* contents = await file.read()
ReadFile ==
    /\ pc = "read"
    /\ n_read' = n_read + 1
    /\ IF file.fault = "read"
       THEN Except("read failed", "read")
       ELSE /\ pc' = "decode"
            /\ UNCHANGED <<response, raised, raised_in>>
    /\ UNCHANGED << req, target_format, quality, idx, img, original_size,
                    converted_images, disk, tmp_path, tmp_count, norm, plan >>

\* img = Image.open(io.BytesIO(contents)), for a file that is not RAW
OpenStandard ==
    /\ pc = "decode"
    /\ ~is_raw_file(file.filename)
    /\ IF file.fault = "decode"
       THEN /\ Except("cannot identify image file", "decode")
            /\ UNCHANGED img
       ELSE /\ img' = [mode |-> file.mode, size |-> file.size]
            /\ pc' = "normalize"
            /\ UNCHANGED <<response, raised, raised_in>>
    /\ UNCHANGED << req, target_format, quality, idx, original_size,
                    converted_images, disk, tmp_path, tmp_count, n_read, norm,
                    plan >>

(***************************************************************************)
(* open_raw_image, step by step.                                           *)
(***************************************************************************)
\* os.unlink(tmp_path)
Unlink(files, path) == {f \in files : f.path # path}

\* The temporary file once the with block has closed it.
Closed(files, path, written) ==
    Unlink(files, path) \cup {[path |-> path, written |-> written, open |-> FALSE]}

\* tempfile.NamedTemporaryFile(suffix=ext, delete=False): a new file, open.
RawCreateTemp ==
    /\ pc = "decode"
    /\ is_raw_file(file.filename)
    /\ tmp_count' = tmp_count + 1
    /\ tmp_path' = <<tmp_count + 1, StrLower(PathSuffix(file.filename))>>
    /\ disk' = disk \cup {[path |-> tmp_path', written |-> FALSE, open |-> TRUE]}
    /\ pc' = "raw_write"
    /\ UNCHANGED << req, target_format, quality, idx, img, original_size,
                    converted_images, response, n_read, raised, raised_in,
                    norm, plan >>

\* tmp.write(contents) and the end of the with block, which closes the file
\* and, with delete=False, leaves it on the disk.  The try statement that
\* unlinks the file has not been entered yet.
RawWriteTemp ==
    /\ pc = "raw_write"
    /\ IF file.fault = "tmpwrite"
       THEN /\ disk' = Closed(disk, tmp_path, FALSE)
            /\ Except("No space left on device", "tmpwrite")
       ELSE /\ disk' = Closed(disk, tmp_path, TRUE)
            /\ pc' = "raw_imread"
            /\ UNCHANGED <<response, raised, raised_in>>
    /\ UNCHANGED << req, target_format, quality, idx, img, original_size,
                    converted_images, tmp_path, tmp_count, n_read, norm, plan >>

\* rawpy.imread(tmp_path), inside the try whose finally unlinks the file
RawImread ==
    /\ pc = "raw_imread"
    /\ IF file.fault = "imread"
       THEN /\ disk' = Unlink(disk, tmp_path)
            /\ Except("data corrupted", "imread")
       ELSE /\ pc' = "raw_postprocess"
            /\ UNCHANGED <<disk, response, raised, raised_in>>
    /\ UNCHANGED << req, target_format, quality, idx, img, original_size,
                    converted_images, tmp_path, tmp_count, n_read, norm, plan >>

\* raw.postprocess(...)
RawPostprocess ==
    /\ pc = "raw_postprocess"
    /\ IF file.fault = "postprocess"
       THEN /\ disk' = Unlink(disk, tmp_path)
            /\ Except("unsupported file format or corrupted data", "postprocess")
       ELSE /\ pc' = "raw_fromarray"
            /\ UNCHANGED <<disk, response, raised, raised_in>>
    /\ UNCHANGED << req, target_format, quality, idx, img, original_size,
                    converted_images, tmp_path, tmp_count, n_read, norm, plan >>

\* img = Image.fromarray(rgb); return img; finally: os.unlink(tmp_path)
RawFromArray ==
    /\ pc = "raw_fromarray"
    /\ disk' = Unlink(disk, tmp_path)
    /\ IF file.fault = "fromarray"
       THEN /\ Except("cannot handle this data type", "fromarray")
            /\ UNCHANGED img
       ELSE /\ img' = [mode |-> "RGB", size |-> file.size]
            /\ pc' = "normalize"
            /\ UNCHANGED <<response, raised, raised_in>>
    /\ UNCHANGED << req, target_format, quality, idx, original_size,
                    converted_images, tmp_path, tmp_count, n_read, norm, plan >>

(***************************************************************************)
(* The rest of the loop body, and the response.                            *)
(***************************************************************************)
\* The colour-mode conversions for a JPG/JPEG and for a GIF target.
NormalizeMode ==
    /\ pc = "normalize"
    /\ norm' = Normalize(target_format, img.mode)
    /\ IF file.fault = "normalize" /\ norm'.op # "none"
       THEN /\ Except("image file is truncated", "normalize")
            /\ UNCHANGED img
       ELSE /\ img' = [img EXCEPT !.mode = norm'.mode]
            /\ pc' = "resize"
            /\ UNCHANGED <<response, raised, raised_in>>
    /\ UNCHANGED << req, target_format, quality, idx, original_size,
                    converted_images, disk, tmp_path, tmp_count, n_read, plan >>

\* The resize step: the branch chosen, and the library call it makes.
Resize ==
    /\ pc = "resize"
    /\ original_size' = img.size
    /\ plan' = ResizePlan(img.size, req.resize_percent, req.width, req.height,
                          req.maintain_aspect_ratio)
    /\ IF plan'.request = <<>>
       THEN /\ pc' = "encode"
            /\ UNCHANGED <<img, response, raised, raised_in>>
       ELSE IF PilResize(plan'.request).ok
       THEN /\ img' = [img EXCEPT !.size = PilResize(plan'.request).size]
            /\ pc' = "encode"
            /\ UNCHANGED <<response, raised, raised_in>>
       ELSE /\ Except(PilResize(plan'.request).e, "resize")
            /\ UNCHANGED img
    /\ UNCHANGED << req, target_format, quality, idx, converted_images, disk,
                    tmp_path, tmp_count, n_read, norm >>

\* buffer.getvalue(): the bytes the encoder wrote, as what determines them.
Encoded(fmt, q, image, k) ==
    [options |-> SaveOptions(fmt, q), mode |-> image.mode, size |-> image.size,
     source |-> k]

\* img.save(...), the append to converted_images, and the next iteration.
Encode ==
    /\ pc = "encode"
    /\ IF file.fault = "encode" \/ ~EncoderAccepts(target_format, img.mode)
       THEN /\ Except("cannot write image", "encode")
            /\ UNCHANGED <<converted_images, idx>>
       ELSE /\ converted_images' =
                  Append(converted_images,
                         [filename |-> NewFilename(file.filename, target_format),
                          data |-> Encoded(target_format, quality, img, idx)])
            /\ IF idx < Len(req.files)
               THEN idx' = idx + 1 /\ pc' = "read"
               ELSE idx' = idx /\ pc' = "respond"
            /\ UNCHANGED <<response, raised, raised_in>>
    /\ UNCHANGED << req, target_format, quality, img, original_size, disk,
                    tmp_path, tmp_count, n_read, norm, plan >>

Respond ==
    /\ pc = "respond"
    /\ response' = BuildResponse(converted_images, target_format)
    /\ pc' = "done"
    /\ UNCHANGED << req, target_format, quality, idx, img, original_size,
                    converted_images, disk, tmp_path, tmp_count, n_read,
                    raised, raised_in, norm, plan >>

Next ==
    \/ Validate
    \/ ReadFile
    \/ OpenStandard
    \/ RawCreateTemp
    \/ RawWriteTemp
    \/ RawImread
    \/ RawPostprocess
    \/ RawFromArray
    \/ NormalizeMode
    \/ Resize
    \/ Encode
    \/ Respond

Spec == Init /\ [][Next]_vars

(***************************************************************************)
(* The properties checked.                                                 *)
(***************************************************************************)
Finished == pc = "done"

Accepted == StrUpper(req.target_format) \in {PNG, JPG, JPEG, GIF, WEBP}

\* The files whose submitted fault makes a step raise whatever the target.
SureFaults == {"read", "decode", "encode", "tmpwrite", "imread", "postprocess",
               "fromarray"}

FirstSureFault ==
    IF \E k \in DOMAIN req.files : req.files[k].fault \in SureFaults
    THEN CHOOSE k \in DOMAIN req.files :
            /\ req.files[k].fault \in SureFaults
            /\ \A j \in 1..(k - 1) : req.files[j].fault \notin SureFaults
    ELSE 0

\* C1: when the processing of the file at position k raises, the request
\* ends with a 400 error whose detail names that file; no image and no ZIP is
\* returned, not even of the k-1 files already converted; no later file is
\* read or processed.  A batch holding a file that is sure to fail never
\* ends in a 200 response.
C1_FailFast ==
    /\ raised > 0 =>
          /\ Finished
          /\ response.status = 400
          /\ response.detail = ProcessingDetail(req.files[raised].filename,
                                                response.detail[4])
          /\ DOMAIN response = {"status", "detail"}
          /\ n_read = raised
          /\ idx = raised
          /\ Len(converted_images) = raised - 1
    /\ Finished /\ Accepted /\ FirstSureFault > 0 =>
          /\ raised \in 1..FirstSureFault
          /\ response.status = 400

\* A batch of two whose second file fails after the first was converted.
C1_Witness ==
    /\ Finished
    /\ Len(req.files) > 1
    /\ raised = 2
    /\ Len(converted_images) = 1
    /\ response.status = 400

CanonicalExtension(fmt) ==
    IF fmt \in {JPG, JPEG} THEN <<"j","p","g">> ELSE StrLower(fmt)

MimeType(fmt) ==
    CASE fmt \in {JPG, JPEG} -> "image/jpeg"
      [] fmt = PNG -> "image/png"
      [] fmt = GIF -> "image/gif"
      [] fmt = WEBP -> "image/webp"

ExpectedName(k) ==
    PathStem(req.files[k].filename) \o <<".">>
        \o CanonicalExtension(StrUpper(req.target_format))

\* C2: when every file converts, one submitted file is answered with its
\* encoded bytes, the MIME type of the target format and the attachment
\* filename <stem>.<ext>; n > 1 files are answered with converted_images.zip
\* holding exactly n entries, the i-th being the output of the i-th file and
\* named <stem_i>.<ext>, <ext> the canonical extension of the target format.
C2_ResponseShape ==
    Finished /\ Accepted /\ raised = 0 =>
        /\ response.status = 200
        /\ IF Len(req.files) = 1
           THEN /\ response.media_type = MimeType(StrUpper(req.target_format))
                /\ response.disposition = <<"attachment", ExpectedName(1)>>
                /\ response.body.source = 1
                /\ response.body.options.format # None
           ELSE /\ response.media_type = "application/zip"
                /\ response.disposition = <<"attachment", ZipName>>
                /\ Len(response.body.entries) = Len(req.files)
                /\ \A k \in DOMAIN req.files :
                      /\ response.body.entries[k].name = ExpectedName(k)
                      /\ response.body.entries[k].data.source = k

\* A ZIP of two entries was returned for two files.
C2_Witness ==
    /\ Finished
    /\ raised = 0
    /\ Len(req.files) = 2
    /\ response.status = 200
    /\ Len(response.body.entries) = 2
    /\ req.files[1].filename # req.files[2].filename

\* C3: a target format of HEIC, in any letter case, is rejected with a 400
\* error whose message is specific to HEIC (input-only), different in kind
\* from the generic unsupported-format message a target such as BMP gets.
C3_HeicMessage ==
    Finished /\ StrUpper(req.target_format) = HEIC =>
        /\ response.status = 400
        /\ <<response.detail[1], response.detail[3]>>
              # <<UnsupportedDetail(<<"B","M","P">>)[1],
                  UnsupportedDetail(<<"B","M","P">>)[3]>>

\* Something of a file has been touched: a read, a temporary file, a bitmap,
\* an output, or the handler is inside the loop.
FileTouched ==
    \/ n_read > 0
    \/ tmp_count > 0
    \/ disk # {}
    \/ img # NoImage
    \/ converted_images # <<>>
    \/ pc \notin {"start", "done"}

\* C4: the target format is validated before any file is read: a request
\* whose upper-cased target is none of PNG, JPG, JPEG, GIF, WEBP fails with
\* a 400 error and no read, decode, temporary file or encode has happened;
\* a file is only ever touched once the target format has been accepted.
C4_ValidateFirst ==
    /\ FileTouched => Accepted /\ target_format = StrUpper(req.target_format)
    /\ pc # "start" /\ ~Accepted =>
          /\ Finished
          /\ response.status = 400
          /\ response.detail = UnsupportedDetail(StrUpper(req.target_format))
          /\ ~FileTouched

\* A rejected request, and none of its files touched.
C4_Witness ==
    /\ Finished
    /\ ~Accepted
    /\ response.status = 400
    /\ n_read = 0

PercentGiven == req.resize_percent # NoInt /\ req.resize_percent[1] # 100

BoxBranches == {"thumbnail", "width", "height", "exact"}

\* C5: the resize policy is chosen by strict priority: when resize_percent
\* is present and not 100 the box-based resize is never applied, whatever
\* width, height and maintain_aspect_ratio are; the box-based resize is
\* applied only when the percent is absent or 100; with neither width nor
\* height, and the percent absent or 100, the size is unchanged.
C5_PercentPriority ==
    plan # NoPlan =>
        /\ PercentGiven => plan.branch \notin BoxBranches
        /\ plan.branch \in BoxBranches => ~PercentGiven
        /\ ~PercentGiven /\ req.width = NoInt /\ req.height = NoInt =>
              plan.request = <<>>

\* C6, as stated: for a PNG target the compression level is
\* 9 - round(quality/100 * 9) of the clamped quality.
C6_RoundedLevel ==
    \A k \in DOMAIN converted_images :
        converted_images[k].data.options.format = "PNG" =>
            converted_images[k].data.options.compress_level
                = 9 - RoundHalfEven(Max(1, Min(100, req.quality)) * 9, 100)

\* C6, amended: for a PNG target the compression level is
\* 9 - int(quality/100 * 9) of the quality clamped into 1..100, the product
\* truncated: it lies in 0..9, does not increase with the quality, and is 0
\* for quality 100, 9 for quality 1 and 2 for quality 85.
C6_TruncatedLevel ==
    \A k \in DOMAIN converted_images :
        converted_images[k].data.options.format = "PNG" =>
            LET q     == Max(1, Min(100, req.quality))
                level == converted_images[k].data.options.compress_level
            IN  /\ level = 9 - ((q * 9) \div 100)
                /\ level \in 0..9
                /\ q < 100 => PngCompressLevel(q + 1) <= level
                /\ q = 100 => level = 0
                /\ q = 1 => level = 9
                /\ q = 85 => level = 2

\* A PNG encoded at the default quality of 85, with compression level 2.
C6_Witness ==
    /\ Finished
    /\ req.quality = 85
    /\ response.status = 200
    /\ Len(req.files) = 1
    /\ response.body.options.format = "PNG"
    /\ response.body.options.compress_level = 2

\* The files that open_raw_image is working on have a temporary file.
InRawDecode == pc \in {"raw_write", "raw_imread", "raw_postprocess", "raw_fromarray"}

\* C7: the temporary file of open_raw_image is a scoped resource: it no
\* longer exists when the function returns or raises, on every exit path;
\* it is written and closed before decoding begins; each RAW file gets a
\* fresh one; no temporary file is ever left behind.
C7_TempFileScoped ==
    /\ ~InRawDecode => disk = {}
    /\ InRawDecode => disk = {f \in disk : f.path = tmp_path} /\ disk # {}
    /\ pc \in {"raw_imread", "raw_postprocess", "raw_fromarray"} =>
          \A f \in disk : f.written /\ ~f.open
    /\ Cardinality(disk) <= 1

HasAlpha(mode) == mode \in {"LA", "PA", "La", "RGBA", "RGBa"}

DecodedMode(f) == IF is_raw_file(f.filename) THEN "RGB" ELSE f.mode

\* C8: for a JPEG/JPG target the bitmap handed on has mode RGB; a source
\* mode with an alpha channel (RGBA, LA) or a palette (P) is composited onto
\* white with the alpha as mask; every other non-RGB mode is converted to RGB
\* directly; an RGB source is passed through unchanged.
C8_JpegModes ==
    pc \in {"resize", "encode"} /\ target_format \in {JPG, JPEG} =>
        LET source == DecodedMode(file)
        IN  /\ img.mode = "RGB"
            /\ HasAlpha(source) \/ source = "P" =>
                  norm.op = "composite" /\ norm.mask = "alpha"
            /\ ~HasAlpha(source) /\ source \notin {"P", "RGB"} =>
                  norm.op = "convert"
            /\ source = "RGB" => norm.op = "none"

\* Whether h is an integer nearest to n/d (either one, on a tie).
Nearest(h, n, d) == 2 * Abs(h * d - n) <= d

\* Whether h is n/d truncated, as the double product gives it: the floor,
\* or one less where n/d is an integer the product falls just short of.
TruncatedQuotient(h, n, d) ==
    \/ h * d <= n /\ n < (h + 1) * d
    \/ n = (h + 1) * d

WidthOnly ==
    /\ plan.branch = "width"
    /\ req.width[1] > 0

HeightOnly ==
    /\ plan.branch = "height"
    /\ req.height[1] > 0

\* C9, as stated: with only a width given and the aspect ratio kept the
\* output is (width, round(originalHeight * width / originalWidth)), and
\* with only a height, (round(originalWidth * height / originalHeight),
\* height).
C9_RoundedDimension ==
    /\ WidthOnly /\ pc = "encode" =>
          /\ img.size[1] = req.width[1]
          /\ Nearest(img.size[2], original_size[2] * req.width[1],
                     original_size[1])
    /\ HeightOnly /\ pc = "encode" =>
          /\ img.size[2] = req.height[1]
          /\ Nearest(img.size[1], original_size[1] * req.height[1],
                     original_size[2])

\* C9, amended: the derived side is truncated, not rounded: with only a
\* width given the size asked for is
\* (width, int(originalHeight * (width / originalWidth))), with only a height
\* (int(originalWidth * (height / originalHeight)), height); the image takes
\* that size when the derived side is at least 1, and the file fails in the
\* resize when it is 0.
C9_TruncatedDimension ==
    /\ WidthOnly =>
          /\ plan.request[1] = req.width[1]
          /\ TruncatedQuotient(plan.request[2],
                               original_size[2] * req.width[1], original_size[1])
    /\ HeightOnly =>
          /\ plan.request[2] = req.height[1]
          /\ TruncatedQuotient(plan.request[1],
                               original_size[1] * req.height[1], original_size[2])
    /\ (WidthOnly \/ HeightOnly) /\ pc = "encode" =>
          /\ img.size = plan.request
          /\ plan.request[1] >= 1 /\ plan.request[2] >= 1
    /\ (WidthOnly \/ HeightOnly)
            /\ (plan.request[1] < 1 \/ plan.request[2] < 1) =>
          /\ Finished
          /\ raised_in = "resize"
          /\ response.status = 400

\* An 11x11 source and a width of 15: the double product 11 * (15 / 11)
\* falls just short of 15 and is truncated to 14.
C9_ShortProduct ==
    /\ pc = "encode"
    /\ plan.branch = "width"
    /\ original_size = <<11, 11>>
    /\ img.size = <<15, 14>>

\* A 3x4 source and a width of 2: the height 8/3 is truncated to 2.
C9_Witness ==
    /\ pc = "encode"
    /\ plan.branch = "width"
    /\ original_size = <<3, 4>>
    /\ req.width = Some(2)
    /\ img.size = <<2, 2>>

\* C10: the resize step has no error conditions: for every source size and
\* every resize_percent, width, height and maintain_aspect_ratio it never
\* asks for a size with a side <= 0 and never fails the request; a computed
\* side <= 0 leaves the image unchanged and the file still converts.
C10_ResizeNeverFails ==
    /\ plan.request # <<>> => plan.request[1] > 0 /\ plan.request[2] > 0
    /\ raised_in # "resize"

====
